---------------------------- MODULE Spec2Model ----------------------------
(***************************************************************************)
(* A model of the two OCR batch scripts of the repository:                 *)
(*   read_book_to_text.py        ("book":   Book/*  -> raw-output.txt)     *)
(*   extract_text_from_images.py ("images": ./*     -> sum.txt)            *)
(*                                                                         *)
(* Strings are sequences of code points (integers), so that Python's       *)
(* code-point ordering, str.lower(), str.strip() and the regular           *)
(* expression \n{3,} are computed rather than assumed.  File-name matching *)
(* is that of a POSIX build (pathlib / glob match case-sensitively).       *)
(***************************************************************************)
EXTENDS Integers, Sequences, FiniteSets, TLC

VARIABLES
    script,        \* which script runs: "book" or "images"
    pc,            \* position of the running function
    book_exists,   \* book_folder.exists()
    dir,           \* names of the files directly inside the scanned directory
    out0,          \* the output file as it was before the run
    out,           \* the output file: [exists, data, mtime]
    all_files,     \* all_files / image_files
    idx,           \* loop index of the for loop (1-based)
    all_content,   \* all_content / all_text
    final_output,  \* header + final_text, the document handed to f.write
    report,        \* the last summary message printed to the operator
    log,           \* per processed file: how main dispatched it and what it got
    calls,         \* pytesseract.image_to_string calls made, in order
    results,       \* results / texts: the strings those calls returned
    best_text,     \* best_text
    content,       \* value returned by the per-file function
    raised,        \* the per-file function ended in its except handler
    raw            \* input of the function under study (file bytes, or a text)

vars == <<script, pc, book_exists, dir, out0, out, all_files, idx, all_content,
          final_output, report, log, calls, results, best_text, content,
          raised, raw>>

-----------------------------------------------------------------------------
(* Bounds of the model.                                                    *)

MaxFiles == 3      \* files in the scanned directory
MaxAge == 1        \* a prior output file was written 1..MaxAge ticks before the run
MaxOcrLen == 2     \* length of a recognition result
MaxTextLen == 6    \* length of a text given to the newline-collapse rule
MaxBytes == 4      \* length of a text file in bytes

-----------------------------------------------------------------------------
(* Strings.                                                                *)

Range(s) == {s[i] : i \in 1..Len(s)}

RECURSIVE StringsUpTo(_, _)
StringsUpTo(alphabet, n) ==
    IF n = 0 THEN {<<>>}
    ELSE LET shorter == StringsUpTo(alphabet, n - 1)
         IN  shorter \cup {Append(s, c) : s \in {t \in shorter : Len(t) = n - 1},
                                             c \in alphabet}

\* str.isspace() per character: the code points Python's str.strip() removes.
IsSpace(c) ==
    c \in ({9, 10, 11, 12, 13, 28, 29, 30, 31, 32, 133, 160, 5760}
           \cup (8192..8202) \cup {8232, 8233, 8239, 8287, 12288})

RECURSIVE LStrip(_)
LStrip(s) == IF s # <<>> /\ IsSpace(Head(s)) THEN LStrip(Tail(s)) ELSE s

RECURSIVE RStrip(_)
RStrip(s) ==
    IF s # <<>> /\ IsSpace(s[Len(s)]) THEN RStrip(SubSeq(s, 1, Len(s) - 1)) ELSE s

\* str.strip()
Strip(s) == RStrip(LStrip(s))

\* str.lower() on one code point (ASCII letters are all the model's names use)
LowerChar(c) == IF c \in 65..90 THEN c + 32 ELSE c

\* str.lower()
Lower(s) == [i \in 1..Len(s) |-> LowerChar(s[i])]

\* a < b on Python strings: lexicographic by code point
LexLess(a, b) ==
    \E k \in 0..(IF Len(a) < Len(b) THEN Len(a) ELSE Len(b)) :
        /\ \A i \in 1..k : a[i] = b[i]
        /\ \/ k = Len(a) /\ k < Len(b)
           \/ k < Len(a) /\ k < Len(b) /\ a[k + 1] < b[k + 1]

EndsWith(s, suffix) ==
    /\ Len(suffix) <= Len(s)
    /\ SubSeq(s, Len(s) - Len(suffix) + 1, Len(s)) = suffix

-----------------------------------------------------------------------------
(* File names and the directory scan.                                      *)

NameDotPng == <<46, 112, 110, 103>>          \* ".png"  (a dot-file, no suffix)
NameApng == <<65, 46, 112, 110, 103>>        \* "A.png"
NameBpng == <<98, 46, 112, 110, 103>>        \* "b.png"
NameZJPG == <<90, 46, 74, 80, 71>>           \* "Z.JPG"
NameCtxt == <<99, 46, 116, 120, 116>>        \* "c.txt"
NameXBMP == <<120, 46, 66, 77, 80>>          \* "x.BMP"
NameXTxt == <<120, 46, 84, 120, 116>>        \* "x.Txt"
NameEpdf == <<101, 46, 112, 100, 102>>       \* "e.pdf"

\* The file names a scanned directory may hold.
FileNames ==
    {NameDotPng, NameApng, NameBpng, NameZJPG, NameCtxt, NameXBMP, NameXTxt,
     NameEpdf}

\* image_extensions, each '*<suffix>' pattern given by its literal suffix
ImagePatterns ==
    IF script = "book"
    THEN << <<46, 112, 110, 103>>,          \* *.png
            <<46, 106, 112, 103>>,          \* *.jpg
            <<46, 106, 112, 101, 103>>,     \* *.jpeg
            <<46, 80, 78, 71>>,             \* *.PNG
            <<46, 74, 80, 71>>,             \* *.JPG
            <<46, 74, 80, 69, 71>>,         \* *.JPEG
            <<46, 98, 109, 112>>,           \* *.bmp
            <<46, 116, 105, 102, 102>> >>   \* *.tiff
    ELSE << <<46, 112, 110, 103>>,
            <<46, 106, 112, 103>>,
            <<46, 106, 112, 101, 103>>,
            <<46, 80, 78, 71>>,
            <<46, 74, 80, 71>>,
            <<46, 74, 80, 69, 71>> >>

\* text_extensions (read_book_to_text.py only)
TextPatterns ==
    IF script = "book"
    THEN << <<46, 116, 120, 116>>,          \* *.txt
            <<46, 84, 88, 84>> >>           \* *.TXT
    ELSE << >>

\* One name against one pattern.  Path.glob matches dot-files; glob.glob
\* does not let '*' match a leading dot.
GlobMatch(name, pat) ==
    /\ EndsWith(name, pat)
    /\ script = "images" => name[1] # 46

Perms(S) == {s \in [1..Cardinality(S) -> S] : Range(s) = S}

\* The lists the extend loops can build: the matches of each pattern in
\* directory order (any order), the patterns in list order.
RECURSIVE ScanOrders(_)
ScanOrders(pats) ==
    IF pats = <<>> THEN {<<>>}
    ELSE {p \o rest : p \in Perms({n \in dir : GlobMatch(n, Head(pats))}),
                      rest \in ScanOrders(Tail(pats))}

\* str(current_dir / ...) prefix of the paths glob.glob returns
DirPath == <<47, 100, 47>>                   \* "/d/"

\* the sort key: x.name for Path objects, the whole path string for glob.glob
SortKey(f) == IF script = "book" THEN f ELSE DirPath \o f

RECURSIVE InsertSorted(_, _)
InsertSorted(f, s) ==
    IF s = <<>> THEN <<f>>
    ELSE IF LexLess(SortKey(f), SortKey(Head(s))) THEN <<f>> \o s
    ELSE <<Head(s)>> \o InsertSorted(f, Tail(s))

UnsortedFiles(fs) == fs

\* list.sort(): stable, ascending by key
RECURSIVE SortFiles(_)
SortFiles(fs) ==
    IF fs = <<>> THEN <<>>
    ELSE InsertSorted(fs[Len(fs)], SortFiles(SubSeq(fs, 1, Len(fs) - 1)))

\* Path.suffix: from the last dot, unless that dot is first or last
Suffix(name) ==
    LET dots == {i \in 1..Len(name) : name[i] = 46}
    IN  IF dots = {} THEN <<>>
        ELSE LET i == CHOOSE d \in dots : \A e \in dots : e <= d
             IN  IF 1 < i /\ i < Len(name) THEN SubSeq(name, i, Len(name))
                 ELSE <<>>

ImageSuffixes ==
    { <<46, 112, 110, 103>>, <<46, 106, 112, 103>>, <<46, 106, 112, 101, 103>>,
      <<46, 98, 109, 112>>, <<46, 116, 105, 102, 102>> }

TextSuffixes == { <<46, 116, 120, 116>> }

\* The if / elif of main's loop.  extract_text_from_images.py has no
\* dispatch: every listed file goes to extract_text_from_image.
Dispatch(name) ==
    IF script = "images" THEN "image"
    ELSE LET file_extension == Lower(Suffix(name))
         IN  IF file_extension \in ImageSuffixes THEN "image"
             ELSE IF file_extension \in TextSuffixes THEN "text"
             ELSE "none"

-----------------------------------------------------------------------------
(* The per-image functions: extract_text_with_layout (book) and            *)
(* extract_text_from_image (images).                                       *)

\* The calls in the order of the (unused) configs list, original image first.
ConfigsListAttempts ==
    << [image |-> "original",  lang |-> "tha+eng", psm |-> 6],
       [image |-> "original",  lang |-> "tha+eng", psm |-> 3],
       [image |-> "processed", lang |-> "tha+eng", psm |-> 6],
       [image |-> "original",  lang |-> "eng",     psm |-> 6] >>

\* The image_to_string calls of extract_text_with_layout, in source order,
\* each as the image it is given, its language set and its --psm mode.
BookAttempts ==
    << [image |-> "original",  lang |-> "tha+eng", psm |-> 6],
       [image |-> "processed", lang |-> "tha+eng", psm |-> 6],
       [image |-> "original",  lang |-> "tha+eng", psm |-> 3],
       [image |-> "original",  lang |-> "eng",     psm |-> 6] >>

\* The image_to_string calls of extract_text_from_image, in source order.
ImagesAttempts ==
    << [image |-> "processed", lang |-> "tha+eng", psm |-> 6],
       [image |-> "original",  lang |-> "tha+eng", psm |-> 6],
       [image |-> "original",  lang |-> "eng",     psm |-> 6] >>

Attempts == IF script = "book" THEN BookAttempts ELSE ImagesAttempts

\* The statements of the try block, in order.  "ocr" is the next call of
\* Attempts, "select" everything from the choice of best_text to the return.
Program ==
    IF script = "book"
    THEN <<"preprocess", "open", "ocr", "ocr", "ocr", "ocr", "select">>
    ELSE <<"preprocess", "ocr", "open", "ocr", "ocr", "select">>

\* max(): the first index whose key is greater than every key before it and
\* not less than any key after it, found by one left-to-right pass.
RECURSIVE ArgMax(_, _, _)
ArgMax(keys, i, best) ==
    IF i > Len(keys) THEN best
    ELSE ArgMax(keys, i + 1, IF keys[i] > keys[best] THEN i ELSE best)

\* key=lambda x: len(x.strip())  (book)   /   key=len  (images)
SelectionKey(x) == IF script = "book" THEN Len(Strip(x)) ELSE Len(x)

\* best_text = max(results, key=...)
BestText(rs) == rs[ArgMax([i \in 1..Len(rs) |-> SelectionKey(rs[i])], 2, 1)]

\* The number of newline characters s starts with.
RECURSIVE LeadingNewlines(_)
LeadingNewlines(s) ==
    IF s # <<>> /\ Head(s) = 10 THEN 1 + LeadingNewlines(Tail(s)) ELSE 0

\* A rule that rewrites exactly three newlines at a time (the pattern \n{3}).
RECURSIVE CollapseThree(_)
CollapseThree(s) ==
    IF s = <<>> THEN <<>>
    ELSE IF LeadingNewlines(s) >= 3
         THEN <<10, 10>> \o CollapseThree(SubSeq(s, 4, Len(s)))
         ELSE <<Head(s)>> \o CollapseThree(Tail(s))

\* re.sub(r'\n{3,}', '\n\n', text): leftmost, greedy, non-overlapping
RECURSIVE Collapse(_)
Collapse(s) ==
    IF s = <<>> THEN <<>>
    ELSE LET n == LeadingNewlines(s)
         IN  IF n >= 3 THEN <<10, 10>> \o Collapse(SubSeq(s, n + 1, Len(s)))
             ELSE <<Head(s)>> \o Collapse(Tail(s))

\* What the function returns once every call has returned.
ExtractText(rs) ==
    IF script = "book" THEN Collapse(Strip(BestText(rs)))
    ELSE Strip(BestText(rs))

-----------------------------------------------------------------------------
(* read_text_file.                                                         *)

\* The utf-8 codec on a byte string whose bytes are below 0xE0 (one- and
\* two-byte forms): the characters, or ok = FALSE for UnicodeDecodeError.
RECURSIVE Utf8Decode(_)
Utf8Decode(b) ==
    IF b = <<>> THEN [ok |-> TRUE, chars |-> <<>>]
    ELSE IF b[1] < 128
         THEN LET r == Utf8Decode(Tail(b))
              IN  [ok |-> r.ok, chars |-> <<b[1]>> \o r.chars]
    ELSE IF b[1] \in 194..223 /\ Len(b) >= 2 /\ b[2] \in 128..191
         THEN LET r == Utf8Decode(SubSeq(b, 3, Len(b)))
              IN  [ok |-> r.ok,
                   chars |-> <<(b[1] - 192) * 64 + (b[2] - 128)>> \o r.chars]
    ELSE [ok |-> FALSE, chars |-> <<>>]

\* The latin-1 codec: every byte is the character of the same number.
Latin1Decode(b) == b

\* Text mode with newline=None: "\r\n" and a lone "\r" are read as "\n".
RECURSIVE UniversalNewlines(_)
UniversalNewlines(s) ==
    IF s = <<>> THEN <<>>
    ELSE IF Head(s) = 13
         THEN IF Len(s) >= 2 /\ s[2] = 10
              THEN <<10>> \o UniversalNewlines(SubSeq(s, 3, Len(s)))
              ELSE <<10>> \o UniversalNewlines(Tail(s))
    ELSE <<Head(s)>> \o UniversalNewlines(Tail(s))

\* read_text_file with rstrip() in place of strip().
ReadTextFileRStrip(bytes, readable) ==
    IF ~readable THEN <<>>
    ELSE LET u == Utf8Decode(bytes)
         IN  IF u.ok THEN RStrip(UniversalNewlines(u.chars))
             ELSE RStrip(UniversalNewlines(Latin1Decode(bytes)))

\* read_text_file: readable = FALSE is an open() or read() that raises
\* something other than UnicodeDecodeError.
ReadTextFile(bytes, readable) ==
    IF ~readable THEN <<>>
    ELSE LET u == Utf8Decode(bytes)
         IN  IF u.ok THEN Strip(UniversalNewlines(u.chars))
             ELSE Strip(UniversalNewlines(Latin1Decode(bytes)))

-----------------------------------------------------------------------------
(* The output document.  A document is a sequence of pieces, the unit in   *)
(* which a write can be seen to have reached the file.                     *)

\* header (book only): the file count and the value printed as the date
HeaderItem(n, na, t) ==
    [kind |-> "header", n |-> n, name |-> <<>>, text |-> <<>>, na |-> na, t |-> t]

\* format_page_separator(page_num, filename); the three rule / label / rule
\* lines of extract_text_from_images.py, which carry no page number (n = 0)
SepItem(n, name) ==
    [kind |-> "sep", n |-> n, name |-> name, text |-> <<>>, na |-> FALSE, t |-> 0]

\* the page text (in extract_text_from_images.py with its blank line)
TextItem(text) ==
    [kind |-> "text", n |-> 0, name |-> <<>>, text |-> text, na |-> FALSE, t |-> 0]

\* what a prior run left in the output file
OldItem ==
    [kind |-> "old", n |-> 0, name |-> <<>>, text |-> <<>>, na |-> FALSE, t |-> 0]

Absent == [exists |-> FALSE, data |-> <<>>, mtime |-> 0]

\* The time of the run: later than any prior output file.
Now == MaxAge + 1

\* Recognition results and text-file bytes the files of a whole run may
\* give: "" / "a" / "  "   and   " " / "H\nW".
OcrSamples == {<<>>, <<97>>, <<32, 32>>}
TextSamples == {<<32>>, <<72, 10, 87>>}

-----------------------------------------------------------------------------
(* main.                                                                   *)

NoFunctionState ==
    /\ calls = <<>>
    /\ results = <<>>
    /\ best_text = <<>>
    /\ content = <<>>
    /\ raised = FALSE
    /\ raw = <<>>

Init ==
    /\ script \in {"book", "images"}
    /\ book_exists \in (IF script = "book" THEN BOOLEAN ELSE {TRUE})
    /\ dir \in (IF book_exists
                THEN {d \in SUBSET FileNames : Cardinality(d) <= MaxFiles}
                ELSE {{}})
    /\ out0 \in {Absent} \cup
                {[exists |-> TRUE, data |-> <<OldItem>>, mtime |-> m] : m \in 1..MaxAge}
    /\ out = out0
    /\ pc = IF script = "book" THEN "start" ELSE "scan"
    /\ all_files = <<>>
    /\ idx = 0
    /\ all_content = <<>>
    /\ final_output = <<>>
    /\ report = "none"
    /\ log = <<>>
    /\ NoFunctionState

\* if not book_folder.exists(): print; return
CheckFolder ==
    /\ pc = "start"
    /\ IF book_exists
       THEN pc' = "scan" /\ report' = report
       ELSE pc' = "done" /\ report' = "no_folder"
    /\ UNCHANGED <<script, book_exists, dir, out0, out, all_files, idx,
                   all_content, final_output, log, calls, results, best_text,
                   content, raised, raw>>

\* The extend loops, the sort, and the 'if not all_files' return.
ScanFiles ==
    /\ pc = "scan"
    /\ \E fs \in ScanOrders(ImagePatterns \o TextPatterns) :
           all_files' = SortFiles(fs)
    /\ IF all_files' = <<>>
       THEN pc' = "done" /\ report' = "no_files" /\ idx' = idx
       ELSE pc' = "loop" /\ report' = report /\ idx' = 1
    /\ UNCHANGED <<script, book_exists, dir, out0, out, all_content,
                   final_output, log, calls, results, best_text, content,
                   raised, raw>>

\* The rest of one loop iteration once the per-file function has returned
\* text: 'if content:' appends the separator and the text.
LoopBody(kind, text, failed) ==
    /\ all_content' =
           IF text # <<>>
           THEN all_content \o
                <<SepItem(IF script = "book" THEN idx ELSE 0, all_files[idx]),
                  TextItem(text)>>
           ELSE all_content
    /\ log' = Append(log, [name |-> all_files[idx], kind |-> kind,
                           failed |-> failed, text |-> text])
    /\ idx' = idx + 1
    /\ UNCHANGED <<script, pc, book_exists, dir, out0, out, all_files,
                   final_output, report, calls, results, best_text, content,
                   raised, raw>>

InLoop == pc = "loop" /\ idx <= Len(all_files)

\* An image whose calls all return.
ProcessImage ==
    /\ InLoop
    /\ Dispatch(all_files[idx]) = "image"
    /\ \E rs \in [1..Len(Attempts) -> OcrSamples] :
           LoopBody("image", ExtractText(rs), FALSE)

\* An image for which cv2, Image.open or a recognition call raises, with
\* the exception propagating out of main.
ProcessImageFailsAborts ==
    /\ InLoop
    /\ Dispatch(all_files[idx]) = "image"
    /\ pc' = "crashed"
    /\ log' = Append(log, [name |-> all_files[idx], kind |-> "image",
                           failed |-> TRUE, text |-> <<>>])
    /\ UNCHANGED <<script, book_exists, dir, out0, out, all_files, idx,
                   all_content, final_output, report, calls, results,
                   best_text, content, raised, raw>>

\* An image for which cv2, Image.open or a recognition call raises: the
\* except handler prints and returns "".
ProcessImageFails ==
    /\ InLoop
    /\ Dispatch(all_files[idx]) = "image"
    /\ LoopBody("image", <<>>, TRUE)

\* A text file that can be opened and read.
ProcessText ==
    /\ InLoop
    /\ Dispatch(all_files[idx]) = "text"
    /\ \E bytes \in TextSamples : LoopBody("text", ReadTextFile(bytes, TRUE), FALSE)

\* A text file whose open() or read() raises.
ProcessTextFails ==
    /\ InLoop
    /\ Dispatch(all_files[idx]) = "text"
    /\ \E bytes \in TextSamples : LoopBody("text", ReadTextFile(bytes, FALSE), TRUE)

\* A listed file whose lowered suffix is in neither list: content stays "".
ProcessOther ==
    /\ InLoop
    /\ Dispatch(all_files[idx]) = "none"
    /\ LoopBody("none", <<>>, FALSE)

\* header + final_text  (book)   /   '\n'.join(all_text)  (images)
Document ==
    IF script = "book"
    THEN <<HeaderItem(Len(all_files), ~out.exists,
                      IF out.exists THEN out.mtime ELSE 0)>> \o all_content
    ELSE all_content

\* The end of the loop with the 'if all_content' test left out.
FinishLoopAlwaysWrites ==
    /\ pc = "loop"
    /\ idx > Len(all_files)
    /\ final_output' = Document
    /\ pc' = "open"
    /\ UNCHANGED <<script, book_exists, dir, out0, out, all_files, idx,
                   all_content, report, log, calls, results, best_text,
                   content, raised, raw>>

\* After the loop: 'if all_content:' builds the document, else reports.
FinishLoop ==
    /\ pc = "loop"
    /\ idx > Len(all_files)
    /\ IF all_content # <<>>
       THEN final_output' = Document /\ pc' = "open" /\ report' = report
       ELSE final_output' = final_output /\ pc' = "done" /\ report' = "no_content"
    /\ UNCHANGED <<script, book_exists, dir, out0, out, all_files, idx,
                   all_content, log, calls, results, best_text, content,
                   raised, raw>>

\* open(output_file, 'r+'): opens for writing without truncating.
OpenOutputNoTruncate ==
    /\ pc = "open"
    /\ out' = [exists |-> TRUE, data |-> out.data, mtime |-> Now]
    /\ pc' = "write"
    /\ UNCHANGED <<script, book_exists, dir, out0, all_files, idx, all_content,
                   final_output, report, log, calls, results, best_text,
                   content, raised, raw>>

\* open(output_file, 'w', encoding='utf-8'): creates or truncates the file.
OpenOutput ==
    /\ pc = "open"
    /\ out' = [exists |-> TRUE, data |-> <<>>, mtime |-> Now]
    /\ pc' = "write"
    /\ UNCHANGED <<script, book_exists, dir, out0, all_files, idx, all_content,
                   final_output, report, log, calls, results, best_text,
                   content, raised, raw>>

\* f.write(...): the buffered writer hands the document to the file in one
\* or more flushes, each extending what the file holds.
WriteOutput ==
    /\ pc = "write"
    /\ Len(out.data) < Len(final_output)
    /\ \E n \in (Len(out.data) + 1)..Len(final_output) :
           out' = [out EXCEPT !.data = SubSeq(final_output, 1, n)]
    /\ UNCHANGED <<script, pc, book_exists, dir, out0, all_files, idx,
                   all_content, final_output, report, log, calls, results,
                   best_text, content, raised, raw>>

\* The end of the with block (close) and the summary prints.
CloseOutput ==
    /\ pc = "write"
    /\ out.data = final_output
    /\ pc' = "done"
    /\ report' = "saved"
    /\ UNCHANGED <<script, book_exists, dir, out0, out, all_files, idx,
                   all_content, final_output, log, calls, results, best_text,
                   content, raised, raw>>

Next ==
    \/ CheckFolder
    \/ ScanFiles
    \/ ProcessImage
    \/ ProcessImageFails
    \/ ProcessText
    \/ ProcessTextFails
    \/ ProcessOther
    \/ FinishLoop
    \/ OpenOutput
    \/ WriteOutput
    \/ CloseOutput

Spec == Init /\ [][Next]_vars

-----------------------------------------------------------------------------
(* The per-image function, one statement at a time.                        *)

\* What a recognition call may return.
OcrStrings == StringsUpTo({97, 32}, MaxOcrLen)

NoRunState ==
    /\ book_exists = TRUE
    /\ dir = {}
    /\ out0 = Absent
    /\ out = Absent
    /\ all_content = <<>>
    /\ final_output = <<>>
    /\ report = "none"
    /\ log = <<>>

\* One call of the per-image function; idx is the position in Program.
InitImage ==
    /\ script \in {"book", "images"}
    /\ pc = "try"
    /\ idx = 1
    /\ all_files = <<NameApng>>
    /\ NoRunState
    /\ NoFunctionState

InTry(op) == pc = "try" /\ Program[idx] = op

\* preprocess_for_high_accuracy / preprocess_image returns.
Preprocess ==
    /\ InTry("preprocess")
    /\ idx' = idx + 1
    /\ UNCHANGED <<script, pc, book_exists, dir, out0, out, all_files,
                   all_content, final_output, report, log, calls, results,
                   best_text, content, raised, raw>>

\* Image.open returns.
OpenImage ==
    /\ InTry("open")
    /\ idx' = idx + 1
    /\ UNCHANGED <<script, pc, book_exists, dir, out0, out, all_files,
                   all_content, final_output, report, log, calls, results,
                   best_text, content, raised, raw>>

\* The next pytesseract.image_to_string call returns a text.
Recognize ==
    /\ InTry("ocr")
    /\ calls' = Append(calls, Attempts[Len(calls) + 1])
    /\ \E t \in OcrStrings : results' = Append(results, t)
    /\ idx' = idx + 1
    /\ UNCHANGED <<script, pc, book_exists, dir, out0, out, all_files,
                   all_content, final_output, report, log, best_text, content,
                   raised, raw>>

\* max(...), strip(), re.sub(...) (book), return.
SelectAndReturn ==
    /\ InTry("select")
    /\ best_text' = BestText(results)
    /\ content' = ExtractText(results)
    /\ pc' = "returned"
    /\ UNCHANGED <<script, book_exists, dir, out0, out, all_files, idx,
                   all_content, final_output, report, log, calls, results,
                   raised, raw>>

\* The statement at idx raises: except Exception prints and returns "".
Raise ==
    /\ pc = "try"
    /\ Program[idx] # "select"
    /\ raised' = TRUE
    /\ content' = <<>>
    /\ pc' = "returned"
    /\ UNCHANGED <<script, book_exists, dir, out0, out, all_files, idx,
                   all_content, final_output, report, log, calls, results,
                   best_text, raw>>

NextImage ==
    \/ Preprocess
    \/ OpenImage
    \/ Recognize
    \/ SelectAndReturn
    \/ Raise

SpecImage == InitImage /\ [][NextImage]_vars

-----------------------------------------------------------------------------
(* The newline-collapse rule on its own.                                   *)

CollapseInputs == StringsUpTo({97, 10}, MaxTextLen)

\* raw is the text given to the rule; results lists what each application
\* returned.
InitCollapse ==
    /\ script = "book"
    /\ pc = "collapse"
    /\ idx = 0
    /\ all_files = <<>>
    /\ NoRunState
    /\ calls = <<>>
    /\ results = <<>>
    /\ best_text = <<>>
    /\ content = <<>>
    /\ raised = FALSE
    /\ raw \in CollapseInputs

\* text = re.sub(r'\n{3,}', '\n\n', text), on the input and then on its
\* own result.
ApplyCollapse ==
    /\ pc = "collapse"
    /\ idx < 2
    /\ content' = Collapse(IF idx = 0 THEN raw ELSE content)
    /\ results' = Append(results, content')
    /\ idx' = idx + 1
    /\ UNCHANGED <<script, pc, book_exists, dir, out0, out, all_files,
                   all_content, final_output, report, log, calls, best_text,
                   raised, raw>>

NextCollapse == ApplyCollapse

SpecCollapse == InitCollapse /\ [][NextCollapse]_vars

-----------------------------------------------------------------------------
(* One loop iteration of read_book_to_text.py on one file, the bytes of a  *)
(* text file drawn widely.                                                 *)

\* 'a', ' ', LF, CR and the two bytes of U+00E9
FileBytes == {97, 32, 10, 13, 195, 169}

InitText ==
    /\ script = "book"
    /\ pc = "file"
    /\ idx = 1
    /\ all_files \in {<<NameCtxt>>, <<NameApng>>}
    /\ NoRunState
    /\ calls = <<>>
    /\ results = <<>>
    /\ best_text = <<>>
    /\ content = <<>>
    /\ raised = FALSE
    /\ raw \in (IF Dispatch(all_files[1]) = "text"
                THEN StringsUpTo(FileBytes, MaxBytes)
                ELSE {<<>>})

\* elif branch: content = read_text_file(str(file_path))
DispatchText ==
    /\ pc = "file"
    /\ Dispatch(all_files[idx]) = "text"
    /\ \E readable \in BOOLEAN :
           /\ content' = ReadTextFile(raw, readable)
           /\ raised' = ~readable
    /\ pc' = "returned"
    /\ UNCHANGED <<script, book_exists, dir, out0, out, all_files, idx,
                   all_content, final_output, report, log, calls, results,
                   best_text, raw>>

\* if branch: content = extract_text_with_layout(str(file_path)), every
\* call returning
DispatchImage ==
    /\ pc = "file"
    /\ Dispatch(all_files[idx]) = "image"
    /\ \E rs \in [1..Len(Attempts) -> OcrSamples] :
           /\ results' = rs
           /\ content' = ExtractText(rs)
    /\ calls' = Attempts
    /\ pc' = "returned"
    /\ UNCHANGED <<script, book_exists, dir, out0, out, all_files, idx,
                   all_content, final_output, report, log, best_text, raised,
                   raw>>

NextText ==
    \/ DispatchText
    \/ DispatchImage

SpecText == InitText /\ [][NextText]_vars

-----------------------------------------------------------------------------
(* Properties.                                                             *)

\* s without its leading and trailing whitespace, by position
Trimmed(s) ==
    LET solid == {i \in 1..Len(s) : ~IsSpace(s[i])}
    IN  IF solid = {} THEN <<>>
        ELSE SubSeq(s, CHOOSE i \in solid : \A j \in solid : i <= j,
                       CHOOSE i \in solid : \A j \in solid : j <= i)

IsPrefix(a, b) == Len(a) <= Len(b) /\ a = SubSeq(b, 1, Len(a))

\* items holds, at k, the separator block of file name followed by text
PageAt(items, k, name, text) ==
    /\ k + 1 <= Len(items)
    /\ items[k].kind = "sep"
    /\ items[k].name = name
    /\ items[k + 1] = TextItem(text)

\* C1: in both scripts the winner (best_text) of a call whose recognition
\* calls all returned is the candidate of maximal trimmed length, the
\* earliest one when several share that length.
C1WinnerByTrimmedLength ==
    (pc = "returned" /\ ~raised) =>
        LET n == Len(results)
            tl(i) == Len(Trimmed(results[i]))
            w == CHOOSE i \in 1..n :
                     /\ \A j \in 1..n : tl(j) <= tl(i)
                     /\ \A j \in 1..(i - 1) : tl(j) < tl(i)
        IN  best_text = results[w]

\* Pages of processed files appear in items in the code-point order of
\* their names, each separator directly followed by its text.
PagesInNameOrder(items) ==
    \A i, j \in 1..Len(log) :
        (/\ log[i].text # <<>>
         /\ log[j].text # <<>>
         /\ LexLess(log[i].name, log[j].name))
        => \E k, m \in 1..Len(items) :
               /\ PageAt(items, k, log[i].name, log[i].text)
               /\ PageAt(items, m, log[j].name, log[j].text)
               /\ k + 1 < m

\* C2: the page entries of the assembled document, and of the file written,
\* are in the lexicographic (case-sensitive) order of their file names,
\* whichever pattern found each file and whatever order the scan returned.
C2PagesInFilenameOrder ==
    /\ PagesInNameOrder(all_content)
    /\ report = "saved" => PagesInNameOrder(out.data)

\* "A.png", "b.png" and "c.txt" all written, in that order.
C2Witness ==
    /\ script = "book"
    /\ report = "saved"
    /\ \E k, m, n \in 1..Len(out.data) :
           /\ k < m /\ m < n
           /\ out.data[k].kind = "sep" /\ out.data[k].name = NameApng
           /\ out.data[m].kind = "sep" /\ out.data[m].name = NameBpng
           /\ out.data[n].kind = "sep" /\ out.data[n].name = NameCtxt

\* C4: while no page entry has been produced the output file is as it was
\* before the run and is not being opened or written, and a run that ends
\* without a page entry ends with one of the three reports.
C4NoPagesNoWrite ==
    /\ all_content = <<>> => (out = out0 /\ pc \notin {"open", "write", "crashed"})
    /\ (pc = "done" /\ all_content = <<>>)
           => report \in {"no_folder", "no_files", "no_content"}

\* Two or more files matched, none gave content, a prior output file exists.
C4Witness ==
    /\ pc = "done"
    /\ report = "no_content"
    /\ Len(all_files) >= 2
    /\ out0.exists
    /\ out = out0

\* C5: a file whose processing fails gets empty content and no separator
\* block, the loop goes on to every later file, files with content get
\* their page, and the header's file count counts every matched file.
C5FailureIsLocal ==
    /\ pc # "crashed"
    /\ Len(log) <= Len(all_files)
    /\ \A i \in 1..Len(log) : log[i].name = all_files[i]
    /\ pc = "loop" => idx = Len(log) + 1
    /\ (pc \in {"open", "write"} \/ (pc = "done" /\ all_files # <<>>))
           => Len(log) = Len(all_files)
    /\ \A i \in 1..Len(log) :
           /\ log[i].failed => log[i].text = <<>>
           /\ log[i].text = <<>> =>
                  \A k \in 1..Len(all_content) : all_content[k].name # log[i].name
           /\ log[i].text # <<>> =>
                  \E k \in 1..Len(all_content) :
                      PageAt(all_content, k, log[i].name, log[i].text)
    /\ (script = "book" /\ final_output # <<>>) =>
           /\ final_output[1].kind = "header"
           /\ final_output[1].n = Len(all_files)

\* An image fails, a later file has content, and its page is in the file.
C5Witness ==
    /\ report = "saved"
    /\ \E i, j \in 1..Len(log) :
           /\ i < j
           /\ log[i].failed
           /\ log[i].kind = "image"
           /\ log[j].text # <<>>
           /\ \E k \in 1..Len(out.data) :
                  PageAt(out.data, k, log[j].name, log[j].text)

SameAsBefore == out.exists = out0.exists /\ out.data = out0.data

HoldsDocument ==
    /\ out.exists
    /\ out.data = final_output
    /\ all_content # <<>>
    /\ final_output =
           (IF script = "book" THEN <<final_output[1]>> ELSE <<>>) \o all_content

\* C6 as stated: at every point of a run the output file is absent or as it
\* was before the run, or holds the complete new document.
C6AbsentPriorOrComplete == SameAsBefore \/ HoldsDocument

\* C6 amended: up to the open() of the final write the output file is as
\* it was before the run; from that open() until the write has finished it
\* holds a prefix of the new document (at first the empty one); after the
\* write it holds the complete document; a run that writes nothing leaves
\* it as it was.
C6PrefixOnlyWhileWriting ==
    /\ pc \in {"start", "scan", "loop", "open"} => out = out0
    /\ pc = "write" => (out.exists /\ IsPrefix(out.data, final_output))
    /\ pc = "done" => IF report = "saved" THEN HoldsDocument ELSE out = out0

\* A prior output file has been replaced by a proper, non-empty prefix.
C6Witness ==
    /\ pc = "write"
    /\ out0.exists
    /\ 0 < Len(out.data)
    /\ Len(out.data) < Len(final_output)

\* name was processed exactly once, as kind
ProcessedOnceAs(name, kind) ==
    /\ Cardinality({i \in 1..Len(log) : log[i].name = name}) = 1
    /\ \A i \in 1..Len(log) : log[i].name = name => log[i].kind = kind

\* C7: by the end of a run of read_book_to_text.py every file of Book whose
\* extension, ignoring case, is png, jpg, jpeg, bmp or tiff has been
\* processed once as an image, every file whose extension ignoring case is
\* txt once as text, and no other file as either.
C7CaseInsensitiveClassify ==
    (script = "book" /\ book_exists /\ pc = "done") =>
        \A f \in dir :
            LET ext == Lower(Suffix(f))
            IN  IF ext \in ImageSuffixes THEN ProcessedOnceAs(f, "image")
                ELSE IF ext \in TextSuffixes THEN ProcessedOnceAs(f, "text")
                ELSE \A i \in 1..Len(log) :
                         log[i].name = f => log[i].kind = "none"

\* C9: the header read_book_to_text.py writes carries the number of matched
\* files and, as its date, the time of the run that wrote it.
C9HeaderCountAndRunTime ==
    (script = "book" /\ report = "saved") =>
        /\ out.data[1].kind = "header"
        /\ out.data[1].n = Len(all_files)
        /\ ~out.data[1].na
        /\ out.data[1].t = Now

\* The length of the run of c that s starts with.
RECURSIVE LeadingRun(_, _)
LeadingRun(s, c) ==
    IF s # <<>> /\ Head(s) = c THEN 1 + LeadingRun(Tail(s), c) ELSE 0

\* s as its maximal runs: <<[c, n], ...>>
RECURSIVE Runs(_)
Runs(s) ==
    IF s = <<>> THEN <<>>
    ELSE LET n == LeadingRun(s, Head(s))
         IN  <<[c |-> Head(s), n |-> n]>> \o Runs(SubSeq(s, n + 1, Len(s)))

\* C8: one application of the newline-collapse rule turns every maximal
\* run of three or more newlines into exactly two and changes nothing else
\* (so its result has no run of three), and a second application returns
\* its argument unchanged.
C8CollapseIdempotent ==
    /\ idx >= 1 =>
           LET before == Runs(raw)
               after == Runs(results[1])
           IN  /\ Len(after) = Len(before)
               /\ \A i \in 1..Len(before) :
                      after[i] = IF before[i].c = 10 /\ before[i].n >= 3
                                 THEN [c |-> 10, n |-> 2]
                                 ELSE before[i]
               /\ \A i \in 1..(Len(results[1]) - 2) :
                      ~(/\ results[1][i] = 10
                        /\ results[1][i + 1] = 10
                        /\ results[1][i + 2] = 10)
    /\ idx = 2 => results[2] = results[1]

\* "a\n\n\n\na" collapsed to "a\n\na", and collapsed again.
C8Witness ==
    /\ idx = 2
    /\ raw = <<97, 10, 10, 10, 10, 97>>
    /\ results = << <<97, 10, 10, 97>>, <<97, 10, 10, 97>> >>

\* The four attempts in the order the claim gives: uniform-block is
\* --psm 6, full-page-auto is --psm 3.
ClaimedAttempts ==
    << [image |-> "original",  lang |-> "tha+eng", psm |-> 6],
       [image |-> "processed", lang |-> "tha+eng", psm |-> 6],
       [image |-> "original",  lang |-> "tha+eng", psm |-> 3],
       [image |-> "original",  lang |-> "eng",     psm |-> 6] >>

NewlinesRead(s) ==
    LET keep == {i \in 1..Len(s) : ~(s[i] = 10 /\ i > 1 /\ s[i - 1] = 13)}
        at(k) == CHOOSE i \in keep : Cardinality({j \in keep : j <= i}) = k
    IN  [k \in 1..Cardinality(keep) |-> IF s[at(k)] = 13 THEN 10 ELSE s[at(k)]]

ReadAsValidUtf8 ==
    /\ pc = "returned"
    /\ Dispatch(all_files[1]) = "text"
    /\ ~raised
    /\ Utf8Decode(raw).ok

\* C3 as stated: the text of a valid UTF-8 text file is its character
\* sequence with only leading and trailing whitespace removed, and no
\* recognition call is made for it.
C3TextRoundTrip ==
    ReadAsValidUtf8 =>
        /\ content = Trimmed(Utf8Decode(raw).chars)
        /\ calls = <<>>

\* C3 amended: the text of a valid UTF-8 text file is its character
\* sequence with each CR LF pair and each other CR read as one LF, and then
\* leading and trailing whitespace removed; no recognition call is made.
C3TextRoundTripUpToNewlines ==
    ReadAsValidUtf8 =>
        /\ content = Trimmed(NewlinesRead(Utf8Decode(raw).chars))
        /\ calls = <<>>

\* "a\r" + U+00E9 is read as "a\n" + U+00E9.
C3Witness ==
    /\ ReadAsValidUtf8
    /\ raw = <<97, 13, 195, 169>>
    /\ content = <<97, 10, 233>>

=============================================================================
